---- MODULE Spec2Model ----
(***************************************************************************)
(* Model of src/system_log.py: the date-stamped rotating file handler      *)
(* (CustomRotatingFileHandler), the process-wide logging configuration     *)
(* (configure_logging / update_logging_config / get_logging_config) and    *)
(* the bounded Redis log list (log_to_redis / get_logs / clear_logs).      *)
(*                                                                         *)
(* Time is a clock in seconds (now).  datetime.now().strftime("%Y-%m-%d")  *)
(* keeps only the day of the clock.  A file name is the pair <<n, d>>: n   *)
(* is 0 for system_logs_<d>.txt and i >= 1 for system_logs_<i>_<d>.txt.    *)
(* A file's content is the sequence of the byte lengths of the records     *)
(* written to it; its size is their sum.  Renames follow POSIX             *)
(* (an existing destination is replaced).                                  *)
(***************************************************************************)
EXTENDS Integers, Sequences, FiniteSets, TLC

VARIABLES now, fs, logger_handlers, handler_count,
          local_max_bytes, local_backup_count,
          store, expire_at, hist, appends, last,
          threads, config, detached

vars == <<now, fs, logger_handlers, handler_count,
          local_max_bytes, local_backup_count,
          store, expire_at, hist, appends, last,
          threads, config, detached>>

fileVars == <<fs, logger_handlers, handler_count,
              local_max_bytes, local_backup_count>>

redisVars == <<store, expire_at, hist, appends>>

\* the calls in progress in the threads of the process (threads: the
\* log_to_redis calls, config: the configure_logging call) and the handlers
\* removed from the logger that a call in progress may still hold
threadVars == <<threads, config, detached>>

-----------------------------------------------------------------------------
(* Bounds of the model                                                     *)

\* the clock stops at MaxDays days
MaxDays == 1
\* no record is written once the files on disk hold MaxRecords records
MaxRecords == 3
\* at most MaxHandlers handlers are constructed by update_logging_config
MaxHandlers == 2
\* the clock of the Redis scenarios stops at MaxRedisDays days
MaxRedisDays == 7
\* log_to_redis is called at most MaxAppends times
MaxAppends == 3
\* the threads that call log_to_redis concurrently, one call each
MaxThreads == 2

-----------------------------------------------------------------------------
(* Program constants                                                       *)

MiB == 1024 * 1024
DEFAULT_MAX_BYTES == 1024 * 1024 * 1
DEFAULT_BACKUP_COUNT == 10
SecondsPerDay == 24 * 60 * 60
HalfDay == SecondsPerDay \div 2

\* the messages a caller logs, and the byte length of the formatted record
\* "%(asctime)s - %(levelname)s - %(message)s" each of them produces
Messages == {"m1", "m2"}
RecordLen(message) == IF message = "m1" THEN MiB \div 2 ELSE MiB

\* the file-system call that fails during one write call: none, the size
\* read, the rename of a backup, the rename of the active file, the reopen
Faults == {"none", "getsize", "shift", "active", "open"}

Sources == {"listener", "processor"}
LOG_KEY == "system_logs"
MAX_LOGS == 1000
TTL == 7 * 24 * 60 * 60

NoStream == <<>>
NoFile == <<-1, -1>>

\* Python evaluates an expression once and binds the value: F applied to
\* the value of v
Force(v, F(_)) == CHOOSE r \in {F(x) : x \in {v}} : TRUE

-----------------------------------------------------------------------------
(* Dates and file names                                                    *)

\* datetime.now().strftime("%Y-%m-%d")
Today(t) == t \div SecondsPerDay

\* "system_logs.txt".replace(".txt", f"_{date}.txt")
ActiveName(date) == <<0, date>>

\* f"system_logs_{i}_{date}.txt"
BackupName(i, date) == <<i, date>>

\* name.replace(name.split("_")[-1], f"{new_date}.txt")
ReplaceDate(name, new_date) == <<name[1], new_date>>

-----------------------------------------------------------------------------
(* File system                                                             *)

RECURSIVE Sum(_)
Sum(s) == IF s = <<>> THEN 0 ELSE Head(s) + Sum(Tail(s))

\* os.path.exists
Exists(f, name) == name \in DOMAIN f

\* os.path.getsize
GetSize(f, name) == Sum(f[name])

\* os.rename
Rename(f, old, new) ==
    [n \in (DOMAIN f \ {old}) \cup {new} |-> IF n = new THEN f[old] ELSE f[n]]

\* open(name, "a")
OpenAppend(f, name) ==
    IF name \in DOMAIN f THEN f
    ELSE [n \in DOMAIN f \cup {name} |-> IF n = name THEN <<>> ELSE f[n]]

\* stream.write(msg + terminator); flush
WriteRecord(f, name, rec) == [f EXCEPT ![name] = Append(@, rec)]

\* the number of records the files on disk hold
TotalRecords(f) ==
    Cardinality({p \in (DOMAIN f) \X (1..(MaxRecords + 1)) : p[2] <= Len(f[p[1]])})

-----------------------------------------------------------------------------
(* CustomRotatingFileHandler                                               *)

\* __init__: the handler and the file system after the file is opened
NewHandler(id, f, t, maxBytes, backupCount) ==
    LET date == Today(t)
        name == ActiveName(date)
    IN  [h |-> [id |-> id,
                current_date |-> date,
                base_filename |-> name,
                baseFilename |-> name,
                maxBytes |-> maxBytes,
                backupCount |-> backupCount,
                stream |-> name],
         fs |-> OpenAppend(f, name)]

\* shouldRollover with the size test strict (> instead of >=)
shouldRollover_strict(h, f, t, fault) ==
    IF h.stream = NoStream
    THEN [h |-> h, result |-> "raise", size |-> -1]
    ELSE IF fault = "getsize" \/ ~Exists(f, h.baseFilename)
    THEN [h |-> h, result |-> "raise", size |-> -1]
    ELSE IF GetSize(f, h.baseFilename) > h.maxBytes
    THEN [h |-> h, result |-> "true", size |-> GetSize(f, h.baseFilename)]
    ELSE IF Today(t) # h.current_date
    THEN [h |-> [h EXCEPT !.current_date = Today(t),
                          !.base_filename = ReplaceDate(h.baseFilename, Today(t))],
          result |-> "true", size |-> GetSize(f, h.baseFilename)]
    ELSE [h |-> h, result |-> "false", size |-> GetSize(f, h.baseFilename)]

\* shouldRollover: result is "true", "false" or "raise"
shouldRollover(h, f, t, fault) ==
    IF h.stream = NoStream
    THEN [h |-> h, result |-> "raise", size |-> -1]
    ELSE IF fault = "getsize" \/ ~Exists(f, h.baseFilename)
    THEN [h |-> h, result |-> "raise", size |-> -1]
    ELSE IF GetSize(f, h.baseFilename) >= h.maxBytes
    THEN [h |-> h, result |-> "true", size |-> GetSize(f, h.baseFilename)]
    ELSE IF Today(t) # h.current_date
    THEN [h |-> [h EXCEPT !.current_date = Today(t),
                          !.base_filename = ReplaceDate(h.baseFilename, Today(t))],
          result |-> "true", size |-> GetSize(f, h.baseFilename)]
    ELSE [h |-> h, result |-> "false", size |-> GetSize(f, h.baseFilename)]

\* doRollover, lines 56-60: the loop from i down to 1
RECURSIVE ShiftBackups(_, _, _, _)
ShiftBackups(f, i, date, fault) ==
    IF i < 1 THEN [fs |-> f, raised |-> FALSE]
    ELSE IF Exists(f, BackupName(i, date))
    THEN IF fault = "shift"
         THEN [fs |-> f, raised |-> TRUE]
         ELSE Force(Rename(f, BackupName(i, date), BackupName(i + 1, date)),
                    LAMBDA moved : ShiftBackups(moved, i - 1, date, fault))
    ELSE ShiftBackups(f, i - 1, date, fault)

\* the active file renamed to backup number 2 instead of 1
RenameActive_second(h, f, fault) ==
    IF Exists(f, h.base_filename)
    THEN IF fault = "active"
         THEN [fs |-> f, raised |-> TRUE]
         ELSE [fs |-> Rename(f, h.base_filename, BackupName(2, h.current_date)),
               raised |-> FALSE]
    ELSE [fs |-> f, raised |-> FALSE]

\* doRollover, lines 62-65
RenameActive(h, f, fault) ==
    IF Exists(f, h.base_filename)
    THEN IF fault = "active"
         THEN [fs |-> f, raised |-> TRUE]
         ELSE [fs |-> Rename(f, h.base_filename, BackupName(1, h.current_date)),
               raised |-> FALSE]
    ELSE [fs |-> f, raised |-> FALSE]

\* doRollover, line 68: self.stream = self._open()
Reopen(h, f, fault) ==
    IF fault = "open"
    THEN [h |-> h, fs |-> f, raised |-> TRUE]
    ELSE [h |-> [h EXCEPT !.stream = h.baseFilename],
          fs |-> OpenAppend(f, h.baseFilename), raised |-> FALSE]

\* doRollover, lines 45-53: the stream closed and the date adopted
CloseAndDate(h, t) ==
    IF Today(t) # h.current_date
    THEN [h EXCEPT !.stream = NoStream,
                   !.current_date = Today(t),
                   !.base_filename = ReplaceDate(h.baseFilename, Today(t))]
    ELSE [h EXCEPT !.stream = NoStream]

doRollover(h, f, t, fault) ==
    Force(CloseAndDate(h, t), LAMBDA dated :
    Force(ShiftBackups(f, dated.backupCount - 1, dated.current_date, fault),
          LAMBDA shifted :
    IF shifted.raised THEN [h |-> dated, fs |-> shifted.fs, raised |-> TRUE]
    ELSE Force(RenameActive(dated, shifted.fs, fault), LAMBDA renamed :
         IF renamed.raised THEN [h |-> dated, fs |-> renamed.fs, raised |-> TRUE]
         ELSE Reopen(dated, renamed.fs, fault))))

\* lines 71-72: if self.shouldRollover(record): self.doRollover()
\* (rollovers counts the calls of doRollover)
RolloverIfNeeded(h, f, t, fault) ==
    Force(shouldRollover(h, f, t, fault), LAMBDA should :
    IF should.result = "raise"
    THEN [h |-> h, fs |-> f, raised |-> TRUE, rollovers |-> 0, size |-> should.size]
    ELSE IF should.result = "false"
    THEN [h |-> should.h, fs |-> f, raised |-> FALSE, rollovers |-> 0,
          size |-> should.size]
    ELSE Force(doRollover(should.h, f, t, fault), LAMBDA rolled :
         [h |-> rolled.h, fs |-> rolled.fs, raised |-> rolled.raised,
          rollovers |-> 1, size |-> should.size]))

\* logging.handlers.BaseRotatingHandler.emit, reached through super().emit:
\* the rollover check and the rollover run again inside a try; an exception
\* is handed to handleError and the record is dropped
BaseEmit(h, f, t, rec, fault) ==
    Force(RolloverIfNeeded(h, f, t, fault), LAMBDA again :
    IF again.raised
    THEN [h |-> again.h, fs |-> again.fs, rollovers |-> again.rollovers,
          written |-> NoFile]
    ELSE [h |-> again.h,
          fs |-> WriteRecord(again.fs, again.h.stream, rec),
          rollovers |-> again.rollovers, written |-> again.h.stream])

\* emit
emit(h, f, t, rec, fault) ==
    Force(RolloverIfNeeded(h, f, t, fault), LAMBDA first :
    IF first.raised
    THEN [h |-> first.h, fs |-> first.fs, raised |-> TRUE,
          rollovers |-> first.rollovers, size |-> first.size, written |-> NoFile]
    ELSE Force(BaseEmit(first.h, first.fs, t, rec, fault), LAMBDA base :
         [h |-> base.h, fs |-> base.fs, raised |-> FALSE,
          rollovers |-> first.rollovers + base.rollovers, size |-> first.size,
          written |-> base.written]))

-----------------------------------------------------------------------------
(* Redis                                                                   *)

\* key = f"{LOG_KEY}_{source}"
Key(source) == <<LOG_KEY, source>>

\* redis_client.rpush
RPush(st, key, message) ==
    [k \in DOMAIN st \cup {key} |->
        IF k = key
        THEN (IF key \in DOMAIN st THEN Append(st[key], message) ELSE <<message>>)
        ELSE st[k]]

\* ltrim that keeps the first n entries: ltrim(key, 0, n - 1)
LTrimLast_first(st, key, n) ==
    IF key \notin DOMAIN st THEN st
    ELSE [st EXCEPT ![key] = IF Len(@) > n THEN SubSeq(@, 1, n) ELSE @]

\* redis_client.ltrim(key, -n, -1)
LTrimLast(st, key, n) ==
    IF key \notin DOMAIN st THEN st
    ELSE [st EXCEPT ![key] = IF Len(@) > n THEN SubSeq(@, Len(@) - n + 1, Len(@)) ELSE @]

\* redis_client.ttl
Ttl(st, ex, key, t) ==
    IF key \notin DOMAIN st THEN -2
    ELSE IF key \notin DOMAIN ex THEN -1
    ELSE ex[key] - t

\* redis_client.expire
Expire(st, ex, key, t, seconds) ==
    IF key \notin DOMAIN st THEN ex
    ELSE [k \in DOMAIN ex \cup {key} |-> IF k = key THEN t + seconds ELSE ex[k]]

\* the expiry refreshed by every call
ExpireIfUnset_always(st, ex, key, t) == Expire(st, ex, key, t, TTL)

\* lines 111-112: if redis_client.ttl(key) == -1: redis_client.expire(...)
ExpireIfUnset(st, ex, key, t) ==
    IF Ttl(st, ex, key, t) = -1 THEN Expire(st, ex, key, t, TTL) ELSE ex

\* redis_client.lrange(key, 0, -1)
LRangeAll(st, key) == IF key \in DOMAIN st THEN st[key] ELSE <<>>

\* a delete that leaves the key in place
Delete_keep(f, key) == f

\* redis_client.delete
Delete(f, key) == [k \in DOMAIN f \ {key} |-> f[k]]

\* list(dict.fromkeys(logs)): a key enters the dict when it is first met
FirstIndexes(logs) ==
    {i \in 1..Len(logs) : \A j \in 1..(i - 1) : logs[j] # logs[i]}

\* a de-duplication that keeps the last occurrence of every message
Dedup_last(logs) ==
    LET idx == {i \in 1..Len(logs) : \A j \in (i + 1)..Len(logs) : logs[j] # logs[i]}
    IN  [k \in 1..Cardinality(idx) |->
            logs[CHOOSE i \in idx : Cardinality({j \in idx : j < i}) = k - 1]]

Dedup(logs) ==
    LET idx == FirstIndexes(logs)
    IN  [k \in 1..Cardinality(idx) |->
            logs[CHOOSE i \in idx : Cardinality({j \in idx : j < i}) = k - 1]]

\* the keys the store has dropped by time t
Expired(ex, t) == {k \in DOMAIN ex : ex[k] <= t}

-----------------------------------------------------------------------------
(* Observation of the last operation                                       *)

Snapshot ==
    [now |-> now, fs |-> fs, logger_handlers |-> logger_handlers,
     local_max_bytes |-> local_max_bytes,
     local_backup_count |-> local_backup_count,
     store |-> store, expire_at |-> expire_at]

\* whether the operation before this one was clear_logs of the source, and
\* the list length and expiry deadline (-1: none) that clear_logs deleted
NotCleared == [was |-> FALSE, length |-> 0, deadline |-> -1]

ClearedBefore(source) ==
    IF last.op = "clear" /\ last.source = source
    THEN [was |-> TRUE,
          length |-> Len(LRangeAll(last.pre.store, Key(source))),
          deadline |-> IF Key(source) \in DOMAIN last.pre.expire_at
                       THEN last.pre.expire_at[Key(source)] ELSE -1]
    ELSE NotCleared

NoOp ==
    [op |-> "init", source |-> "", message |-> "", fault |-> "none",
     raised |-> FALSE, rollovers |-> 0, size |-> -1, written |-> NoFile,
     response |-> <<>>, pre |-> <<>>, cleared |-> NotCleared]

Observe(op, source) ==
    [NoOp EXCEPT !.op = op, !.source = source, !.pre = Snapshot]

-----------------------------------------------------------------------------
(* Operations                                                              *)

\* configure_logging without the removal of the existing handlers
configure_logging_keep(handlers, f, count, t, max_bytes, backup_count) ==
    Force(NewHandler(count + 1, f, t, max_bytes, backup_count), LAMBDA made :
    [local_max_bytes |-> max_bytes,
     local_backup_count |-> backup_count,
     logger_handlers |-> Append(handlers, made.h),
     handler_count |-> count + 1,
     fs |-> made.fs])

\* configure_logging: the state of the logging globals afterwards
configure_logging(handlers, f, count, t, max_bytes, backup_count) ==
    Force(NewHandler(count + 1, f, t, max_bytes, backup_count), LAMBDA made :
    [local_max_bytes |-> max_bytes,
     local_backup_count |-> backup_count,
     logger_handlers |-> <<made.h>>,
     handler_count |-> count + 1,
     fs |-> made.fs])

\* a thread that has not called log_to_redis yet: pc is the position in the
\* call, seen the handlers callHandlers found, held the handler whose emit
\* the thread runs, pass 1 the rollover check of emit and pass 2 the one
\* inside super().emit, written the number of times the record was written
Threads == 1..MaxThreads

IdleThread ==
    [pc |-> "idle", message |-> "", source |-> "", seen |-> <<>>, held |-> 0,
     pass |-> 0, written |-> 0]

\* no configure_logging call in progress
IdleConfig == [pc |-> "idle", max_bytes |-> 0, backup_count |-> 0]

\* module initialisation, lines 114-118
Booted == configure_logging(<<>>, <<>>, 0, 0, DEFAULT_MAX_BYTES, DEFAULT_BACKUP_COUNT)

InitFile ==
    /\ now = 0
    /\ fs = Booted.fs
    /\ logger_handlers = Booted.logger_handlers
    /\ handler_count = Booted.handler_count
    /\ local_max_bytes = Booted.local_max_bytes
    /\ local_backup_count = Booted.local_backup_count
    /\ last = NoOp
    /\ threads = [t \in Threads |-> IdleThread]
    /\ config = IdleConfig
    /\ detached = <<>>

Init ==
    /\ InitFile
    /\ store = <<>>
    /\ expire_at = <<>>
    /\ hist = [s \in Sources |-> <<>>]
    /\ appends = 0

\* logger.info(...): every handler of the logger emits the record
\* (configure_logging leaves exactly one)
LoggerInfo(handlers, f, t, message, fault) ==
    Force(emit(handlers[1], f, t, RecordLen(message), fault), LAMBDA out :
    [logger_handlers |-> <<out.h>>, fs |-> out.fs, raised |-> out.raised,
     rollovers |-> out.rollovers, size |-> out.size, written |-> out.written])

\* a caller logs a message through the logger
Write(message, fault) ==
    \E out \in {LoggerInfo(logger_handlers, fs, now, message, fault)} :
        /\ TotalRecords(fs) < MaxRecords
        /\ logger_handlers' = out.logger_handlers
        /\ fs' = out.fs
        /\ last' = [Observe("write", "") EXCEPT
                        !.message = message, !.fault = fault,
                        !.raised = out.raised, !.rollovers = out.rollovers,
                        !.size = out.size, !.written = out.written]
        /\ UNCHANGED <<now, handler_count, local_max_bytes, local_backup_count,
                       redisVars, threadVars>>

\* the clock advances by dt seconds; the store drops the keys that expire
TimePasses(dt, days) ==
    /\ now + dt <= days * SecondsPerDay
    /\ now' = now + dt
    /\ store' = [k \in DOMAIN store \ Expired(expire_at, now + dt) |-> store[k]]
    /\ expire_at' = [k \in DOMAIN expire_at \ Expired(expire_at, now + dt) |->
                        expire_at[k]]
    /\ hist' = [s \in Sources |->
                   IF Key(s) \in Expired(expire_at, now + dt) THEN <<>> ELSE hist[s]]
    /\ last' = Observe("time", "")
    /\ UNCHANGED <<fileVars, appends, threadVars>>

\* int(request.form[...]): the form values the model submits
MaxBytesFormValues == {"abc", "0", "2"}
BackupCountFormValues == {"abc", "0", "1", "2"}
IsInt(text) == text \in {"0", "1", "2"}
ParseInt(text) ==
    CASE text = "0" -> 0
      [] text = "1" -> 1
      [] text = "2" -> 2

\* update_logging_config without the test for values <= 0
UpdateOutcome_unchecked(form_max, form_count) ==
    IF ~IsInt(form_max) \/ ~IsInt(form_count)
    THEN [success |-> FALSE, configured |-> FALSE,
          message |-> "Invalid input. Please enter valid numbers!"]
    ELSE [success |-> TRUE, configured |-> TRUE,
          message |-> "Logging configuration updated successfully!"]

\* update_logging_config: the response and whether configure_logging ran
UpdateOutcome(form_max, form_count) ==
    IF ~IsInt(form_max) \/ ~IsInt(form_count)
    THEN [success |-> FALSE, configured |-> FALSE,
          message |-> "Invalid input. Please enter valid numbers!"]
    ELSE IF ParseInt(form_max) * MiB <= 0 \/ ParseInt(form_count) <= 0
    THEN [success |-> FALSE, configured |-> FALSE,
          message |-> "Values must be greater than 0!"]
    ELSE [success |-> TRUE, configured |-> TRUE,
          message |-> "Logging configuration updated successfully!"]

update_logging_config(form_max, form_count) ==
    \E outcome \in {UpdateOutcome(form_max, form_count)} :
        /\ outcome.configured => handler_count < MaxHandlers
        /\ IF outcome.configured
           THEN \E conf \in {configure_logging(logger_handlers, fs, handler_count,
                                                now, ParseInt(form_max) * MiB,
                                                ParseInt(form_count))} :
                /\ local_max_bytes' = conf.local_max_bytes
                /\ local_backup_count' = conf.local_backup_count
                /\ logger_handlers' = conf.logger_handlers
                /\ handler_count' = conf.handler_count
                /\ fs' = conf.fs
           ELSE UNCHANGED fileVars
        /\ last' = [Observe("update_config", "") EXCEPT
                        !.message = <<form_max, form_count>>,
                        !.response = [success |-> outcome.success,
                                      message |-> outcome.message]]
        /\ UNCHANGED <<now, redisVars, threadVars>>

get_logging_config ==
    /\ last' = [Observe("get_config", "") EXCEPT
                    !.response = [success |-> TRUE,
                                  maxBytes |-> local_max_bytes,
                                  backupCount |-> local_backup_count]]
    /\ UNCHANGED <<now, fileVars, redisVars, threadVars>>

\* log_to_redis
log_to_redis(message, source, fault) ==
    \E key \in {Key(source)} :
    \E pushed \in {RPush(store, key, message)} :
    \E trimmed \in {LTrimLast(pushed, key, MAX_LOGS)} :
    \E out \in {LoggerInfo(logger_handlers, fs, now, message, fault)} :
        /\ appends < MaxAppends
        /\ appends' = appends + 1
        /\ store' = trimmed
        /\ logger_handlers' = out.logger_handlers
        /\ fs' = out.fs
        /\ expire_at' = IF out.raised THEN expire_at
                        ELSE ExpireIfUnset(trimmed, expire_at, key, now)
        /\ hist' = [hist EXCEPT ![source] = Append(@, message)]
        /\ last' = [Observe("append", source) EXCEPT
                        !.message = message, !.fault = fault,
                        !.raised = out.raised, !.rollovers = out.rollovers,
                        !.size = out.size, !.written = out.written,
                        !.cleared = ClearedBefore(source)]
        /\ UNCHANGED <<now, handler_count, local_max_bytes, local_backup_count,
                       threadVars>>

\* get_logs
get_logs(log_type) ==
    /\ last' = [Observe("get_logs", log_type) EXCEPT
                    !.response = [success |-> TRUE,
                                  logs |-> Dedup(LRangeAll(store, Key(log_type)))]]
    /\ UNCHANGED <<now, fileVars, redisVars, threadVars>>

\* clear_logs
clear_logs(log_type) ==
    /\ store' = Delete(store, Key(log_type))
    /\ expire_at' = Delete(expire_at, Key(log_type))
    /\ hist' = [hist EXCEPT ![log_type] = <<>>]
    /\ last' = [Observe("clear", log_type) EXCEPT
                    !.response = [success |-> TRUE]]
    /\ UNCHANGED <<now, fileVars, appends, threadVars>>

Next ==
    \/ \E message \in Messages, fault \in Faults : Write(message, fault)
    \/ TimePasses(HalfDay, MaxDays)
    \/ \E form_max \in MaxBytesFormValues, form_count \in BackupCountFormValues :
           update_logging_config(form_max, form_count)
    \/ get_logging_config

Spec == Init /\ [][Next]_vars

\* the same program on a file system whose calls never fail
NextNoFault ==
    \/ \E message \in Messages : Write(message, "none")
    \/ TimePasses(HalfDay, MaxDays)
    \/ \E form_max \in MaxBytesFormValues, form_count \in BackupCountFormValues :
           update_logging_config(form_max, form_count)
    \/ get_logging_config

SpecNoFault == Init /\ [][NextNoFault]_vars

\* the Redis store as an earlier run of the program may have left it: empty,
\* or the listener list one short of full with its expiry running
Prefilled(n) == [i \in 1..n |-> IF i % 2 = 0 THEN "m1" ELSE "m2"]

InitRedis ==
    /\ InitFile
    /\ appends = 0
    /\ \/ /\ store = <<>>
          /\ expire_at = <<>>
          /\ hist = [s \in Sources |-> <<>>]
       \/ /\ store = [k \in {Key("listener")} |-> Prefilled(MAX_LOGS - 1)]
          /\ expire_at = [k \in {Key("listener")} |-> TTL]
          /\ hist = [s \in Sources |->
                        IF s = "listener" THEN Prefilled(MAX_LOGS - 1) ELSE <<>>]

\* in the Redis scenarios the file write of log_to_redis succeeds or its
\* size read fails
RedisFaults == {"none", "getsize"}

RedisTimeSteps == {TTL \div 2}

NextRedis ==
    \/ \E message \in Messages, source \in Sources, fault \in RedisFaults :
           log_to_redis(message, source, fault)
    \/ \E log_type \in Sources : get_logs(log_type)
    \/ \E log_type \in Sources : clear_logs(log_type)
    \/ \E dt \in RedisTimeSteps : TimePasses(dt, MaxRedisDays)

SpecRedis == InitRedis /\ [][NextRedis]_vars

-----------------------------------------------------------------------------
(* Concurrent calls: log_to_redis in several threads, one configure_logging *)
(* call and readers, one step per call on Redis, on the logger's handler    *)
(* list or on the file system.  logging.Handler.handle runs emit under the  *)
(* lock of the handler; Logger.addHandler and removeHandler each take the   *)
(* module lock for one change of the list.                                  *)

\* what an open stream is left on when its file name is overwritten
Unlinked == <<-2, -2>>

\* a stream stays on its file when the file is renamed: the name of the
\* file of stream s after the loop of lines 56-60 ran on f
RetargetShift(s, f, count, date) ==
    IF s \in DOMAIN f /\ s[2] = date /\ s[1] >= 1 /\ s[1] <= count - 1
    THEN BackupName(s[1] + 1, date)
    ELSE IF /\ s \in DOMAIN f
            /\ s = BackupName(count, date)
            /\ Exists(f, BackupName(count - 1, date))
    THEN Unlinked
    ELSE s

\* the name of the file of stream s after lines 62-65 ran on f
RetargetActive(s, f, base, date) ==
    IF ~Exists(f, base) THEN s
    ELSE IF s = base THEN BackupName(1, date)
    ELSE IF s = BackupName(1, date) THEN Unlinked
    ELSE s

\* the handler objects: those of logger.handlers and the removed ones
Attached(id) == \E i \in DOMAIN logger_handlers : logger_handlers[i].id = id

HandlerOf(id) ==
    IF Attached(id)
    THEN logger_handlers[CHOOSE i \in DOMAIN logger_handlers :
                             logger_handlers[i].id = id]
    ELSE detached[id]

\* the handlers hs with the state of handler h updated
PutHandler(hs, h) ==
    [i \in DOMAIN hs |-> IF hs[i].id = h.id THEN h ELSE hs[i]]

\* the handlers hs after the loop of lines 56-60 ran on f
ShiftedStreams(hs, f, count, date) ==
    [i \in DOMAIN hs |->
        [hs[i] EXCEPT !.stream = RetargetShift(@, f, count, date)]]

\* the handlers hs after lines 62-65 ran on f
RenamedStreams(hs, f, base, date) ==
    [i \in DOMAIN hs |->
        [hs[i] EXCEPT !.stream = RetargetActive(@, f, base, date)]]

\* thread t holds the lock of its handler: Handler.handle, acquire to release
Locked(t) ==
    threads[t].pc \in {"super_emit", "close", "shift", "rename", "reopen", "append"}

LockFree(id, t) ==
    \A u \in Threads \ {t} : ~(Locked(u) /\ threads[u].held = id)

\* the steps of the threads record no observation
Step == [NoOp EXCEPT !.op = "step"]

\* line 102: redis_client.rpush(key, message)
T_RPush(t, message, source) ==
    /\ threads[t].pc = "idle"
    /\ store' = RPush(store, Key(source), message)
    /\ hist' = [hist EXCEPT ![source] = Append(@, message)]
    /\ threads' = [threads EXCEPT ![t] = [@ EXCEPT !.pc = "ltrim",
                                                   !.message = message,
                                                   !.source = source]]
    /\ last' = Step
    /\ UNCHANGED <<now, fileVars, expire_at, appends, config, detached>>

\* line 105: redis_client.ltrim(key, -1000, -1)
T_LTrim(t) ==
    /\ threads[t].pc = "ltrim"
    /\ store' = LTrimLast(store, Key(threads[t].source), MAX_LOGS)
    /\ threads' = [threads EXCEPT ![t].pc = "handlers"]
    /\ last' = Step
    /\ UNCHANGED <<now, fileVars, expire_at, hist, appends, config, detached>>

\* line 108, Logger.callHandlers: the handlers of the logger are read; with
\* none, the record goes to logging.lastResort, which drops an INFO record
T_CallHandlers(t) ==
    /\ threads[t].pc = "handlers"
    /\ \E seen \in {[i \in DOMAIN logger_handlers |-> logger_handlers[i].id]} :
           threads' = [threads EXCEPT ![t] =
               [@ EXCEPT !.seen = seen,
                         !.held = IF seen = <<>> THEN 0 ELSE seen[1],
                         !.pc = IF seen = <<>> THEN "ttl" ELSE "emit"]]
    /\ last' = Step
    /\ UNCHANGED <<now, fileVars, redisVars, config, detached>>

\* lines 71 and 73: self.shouldRollover(record), under the handler's lock;
\* an exception of the first check reaches the caller of log_to_redis, one
\* of the check inside super().emit is handed to handleError
T_ShouldRollover(t) ==
    /\ threads[t].pc \in {"emit", "super_emit"}
    /\ threads[t].pc = "emit" => LockFree(threads[t].held, t)
    /\ \E pass \in {IF threads[t].pc = "emit" THEN 1 ELSE 2} :
       \E should \in {shouldRollover(HandlerOf(threads[t].held), fs, now, "none")} :
           /\ threads' = [threads EXCEPT ![t] =
                  [@ EXCEPT !.pass = pass,
                            !.pc = CASE should.result = "raise" ->
                                          (IF pass = 1 THEN "raised" ELSE "ttl")
                                     [] should.result = "true" -> "close"
                                     [] should.result = "false" ->
                                          (IF pass = 1 THEN "super_emit" ELSE "append")]]
           /\ logger_handlers' = PutHandler(logger_handlers, should.h)
           /\ detached' = PutHandler(detached, should.h)
    /\ last' = Step
    /\ UNCHANGED <<now, fs, handler_count, local_max_bytes, local_backup_count,
                   redisVars, config>>

\* lines 45-53: the stream closed and the date adopted
T_Close(t) ==
    /\ threads[t].pc = "close"
    /\ \E dated \in {CloseAndDate(HandlerOf(threads[t].held), now)} :
           /\ logger_handlers' = PutHandler(logger_handlers, dated)
           /\ detached' = PutHandler(detached, dated)
    /\ threads' = [threads EXCEPT ![t].pc = "shift"]
    /\ last' = Step
    /\ UNCHANGED <<now, fs, handler_count, local_max_bytes, local_backup_count,
                   redisVars, config>>

\* lines 56-60: the backups renumbered
T_Shift(t) ==
    /\ threads[t].pc = "shift"
    /\ \E h \in {HandlerOf(threads[t].held)} :
           /\ fs' = ShiftBackups(fs, h.backupCount - 1, h.current_date, "none").fs
           /\ logger_handlers' = ShiftedStreams(logger_handlers, fs,
                                                 h.backupCount, h.current_date)
           /\ detached' = ShiftedStreams(detached, fs,
                                          h.backupCount, h.current_date)
    /\ threads' = [threads EXCEPT ![t].pc = "rename"]
    /\ last' = Step
    /\ UNCHANGED <<now, handler_count, local_max_bytes, local_backup_count,
                   redisVars, config>>

\* lines 62-65: the active file renamed to backup 1
T_Rename(t) ==
    /\ threads[t].pc = "rename"
    /\ \E h \in {HandlerOf(threads[t].held)} :
           /\ fs' = RenameActive(h, fs, "none").fs
           /\ logger_handlers' = RenamedStreams(logger_handlers, fs,
                                                 h.base_filename, h.current_date)
           /\ detached' = RenamedStreams(detached, fs,
                                          h.base_filename, h.current_date)
    /\ threads' = [threads EXCEPT ![t].pc = "reopen"]
    /\ last' = Step
    /\ UNCHANGED <<now, handler_count, local_max_bytes, local_backup_count,
                   redisVars, config>>

\* line 68: self.stream = self._open()
T_Reopen(t) ==
    /\ threads[t].pc = "reopen"
    /\ \E opened \in {Reopen(HandlerOf(threads[t].held), fs, "none")} :
           /\ fs' = opened.fs
           /\ logger_handlers' = PutHandler(logger_handlers, opened.h)
           /\ detached' = PutHandler(detached, opened.h)
    /\ threads' = [threads EXCEPT ![t].pc =
                      IF threads[t].pass = 1 THEN "super_emit" ELSE "append"]
    /\ last' = Step
    /\ UNCHANGED <<now, handler_count, local_max_bytes, local_backup_count,
                   redisVars, config>>

\* StreamHandler.emit: the record written to the open stream and flushed;
\* then Handler.handle releases the lock
T_Append(t) ==
    /\ threads[t].pc = "append"
    /\ \E stream \in {HandlerOf(threads[t].held).stream} :
           fs' = IF stream = Unlinked THEN fs
                 ELSE WriteRecord(fs, stream, RecordLen(threads[t].message))
    /\ threads' = [threads EXCEPT ![t] = [@ EXCEPT !.pc = "ttl",
                                                   !.written = @ + 1]]
    /\ last' = Step
    /\ UNCHANGED <<now, logger_handlers, handler_count, local_max_bytes,
                   local_backup_count, redisVars, config, detached>>

\* line 111: redis_client.ttl(key) == -1
T_Ttl(t) ==
    /\ threads[t].pc = "ttl"
    /\ threads' = [threads EXCEPT ![t].pc =
                      IF Ttl(store, expire_at, Key(threads[t].source), now) = -1
                      THEN "expire" ELSE "done"]
    /\ last' = Step
    /\ UNCHANGED <<now, fileVars, redisVars, config, detached>>

\* line 112: redis_client.expire(key, 7*24*60*60)
T_Expire(t) ==
    /\ threads[t].pc = "expire"
    /\ expire_at' = Expire(store, expire_at, Key(threads[t].source), now, TTL)
    /\ threads' = [threads EXCEPT ![t].pc = "done"]
    /\ last' = Step
    /\ UNCHANGED <<now, fileVars, store, hist, appends, config, detached>>

\* update_logging_config with a valid form, line 82: the globals are set
C_Globals(form_max, form_count) ==
    /\ config.pc = "idle"
    /\ handler_count < MaxHandlers
    /\ UpdateOutcome(form_max, form_count).configured
    /\ local_max_bytes' = ParseInt(form_max) * MiB
    /\ local_backup_count' = ParseInt(form_count)
    /\ config' = [pc |-> "remove", max_bytes |-> ParseInt(form_max) * MiB,
                  backup_count |-> ParseInt(form_count)]
    /\ last' = Step
    /\ UNCHANGED <<now, fs, logger_handlers, handler_count, redisVars, threads,
                   detached>>

\* lines 85-86: the handlers are removed from the logger
C_Remove ==
    /\ config.pc = "remove"
    /\ logger_handlers' = <<>>
    /\ detached' = [id \in DOMAIN detached \cup
                        {logger_handlers[i].id : i \in DOMAIN logger_handlers} |->
                       HandlerOf(id)]
    /\ config' = [config EXCEPT !.pc = "install"]
    /\ last' = Step
    /\ UNCHANGED <<now, fs, handler_count, local_max_bytes, local_backup_count,
                   redisVars, threads>>

\* lines 89-93: the new handler is constructed, which opens today's file,
\* and added to the logger
C_Install ==
    /\ config.pc = "install"
    /\ \E made \in {NewHandler(handler_count + 1, fs, now, config.max_bytes,
                               config.backup_count)} :
           /\ fs' = made.fs
           /\ logger_handlers' = Append(logger_handlers, made.h)
    /\ handler_count' = handler_count + 1
    /\ config' = IdleConfig
    /\ last' = Step
    /\ UNCHANGED <<now, local_max_bytes, local_backup_count, redisVars, threads,
                   detached>>

\* the program when the threads start: one record of 1 MiB has been
\* written through the logger and the listener list is full
FirstWrite == LoggerInfo(Booted.logger_handlers, Booted.fs, 0, "m2", "none")

InitThreads ==
    /\ now = 0
    /\ handler_count = Booted.handler_count
    /\ local_max_bytes = Booted.local_max_bytes
    /\ local_backup_count = Booted.local_backup_count
    /\ fs = FirstWrite.fs
    /\ logger_handlers = FirstWrite.logger_handlers
    /\ store = [k \in {Key("listener")} |-> Prefilled(MAX_LOGS)]
    /\ expire_at = [k \in {Key("listener")} |-> TTL]
    /\ hist = [s \in Sources |->
                  IF s = "listener" THEN Prefilled(MAX_LOGS) ELSE <<>>]
    /\ appends = 0
    /\ last = NoOp
    /\ threads = [t \in Threads |-> IdleThread]
    /\ config = IdleConfig
    /\ detached = <<>>

NextThreads ==
    \/ \E t \in Threads, message \in Messages, source \in Sources :
           T_RPush(t, message, source)
    \/ \E t \in Threads : T_LTrim(t)
    \/ \E t \in Threads : T_CallHandlers(t)
    \/ \E t \in Threads : T_ShouldRollover(t)
    \/ \E t \in Threads : T_Close(t)
    \/ \E t \in Threads : T_Shift(t)
    \/ \E t \in Threads : T_Rename(t)
    \/ \E t \in Threads : T_Reopen(t)
    \/ \E t \in Threads : T_Append(t)
    \/ \E t \in Threads : T_Ttl(t)
    \/ \E t \in Threads : T_Expire(t)
    \/ \E form_max \in MaxBytesFormValues, form_count \in BackupCountFormValues :
           C_Globals(form_max, form_count)
    \/ C_Remove
    \/ C_Install
    \/ \E log_type \in Sources : get_logs(log_type)

SpecThreads == InitThreads /\ [][NextThreads]_vars

-----------------------------------------------------------------------------
(* Properties of the rotating file handler                                 *)

\* the active handler now and before the last operation
Handler == logger_handlers[1]
PreHandler == last.pre.logger_handlers[1]

\* the handler has seen no date change since it was constructed
SameDay(h, t) ==
    /\ h.baseFilename = ActiveName(h.current_date)
    /\ Today(t) = h.current_date

\* the last operation was a write that met the first date change of its
\* handler, found the file below the size threshold, and no call failed
WriteAfterDateChange ==
    /\ last.op = "write"
    /\ last.fault = "none"
    /\ PreHandler.stream = ActiveName(PreHandler.current_date)
    /\ Today(last.pre.now) # PreHandler.current_date
    /\ last.size >= 0
    /\ last.size < PreHandler.maxBytes

\* C1: a write that meets a date change below the size threshold rotates:
\* the previous date's active file has become backup number 1, the open
\* active file is the new date's file and the record is appended to it.
C1_DateChangeRotates ==
    WriteAfterDateChange =>
        LET old == PreHandler.current_date
            new == Today(now)
        IN  /\ ~Exists(fs, ActiveName(old))
            /\ \E d \in {old, new} :
                   /\ Exists(fs, BackupName(1, d))
                   /\ fs[BackupName(1, d)] = last.pre.fs[ActiveName(old)]
            /\ Handler.stream = ActiveName(new)
            /\ last.written = ActiveName(new)
            /\ Exists(fs, ActiveName(new))
            /\ fs[ActiveName(new)] = <<RecordLen(last.message)>>

\* C2: between operations the active handler's stream is open and points
\* at a file whose name embeds the handler's current_date.
C2_StreamOpenOnCurrentDate ==
    /\ Len(logger_handlers) = 1
    /\ Handler.stream # NoStream
    /\ Handler.stream = ActiveName(Handler.current_date)
    /\ Exists(fs, Handler.stream)

\* the last operation was a write by a handler that has seen no date
\* change, the write read the size of the active file and no call failed
WriteSameDay ==
    /\ last.op = "write"
    /\ last.fault = "none"
    /\ last.size >= 0
    /\ SameDay(PreHandler, last.pre.now)

\* C3: with no date change and no failing call, a write that finds the
\* active file at or above maxBytes rotates exactly once and then appends:
\* backup 1 of the current date holds the former active content and the
\* active file holds only the new record; a write that finds the file
\* below maxBytes does not rotate and appends to the active file.
C3_SizeRotation ==
    WriteSameDay =>
        LET active == PreHandler.baseFilename
            date == PreHandler.current_date
            rec == RecordLen(last.message)
        IN  IF last.size >= PreHandler.maxBytes
            THEN /\ last.rollovers = 1
                 /\ Exists(fs, BackupName(1, date))
                 /\ fs[BackupName(1, date)] = last.pre.fs[active]
                 /\ fs[active] = <<rec>>
                 /\ last.written = active
                 /\ Handler.stream = active
            ELSE /\ last.rollovers = 0
                 /\ fs = WriteRecord(last.pre.fs, active, rec)
                 /\ last.written = active

C3_Witness ==
    /\ WriteSameDay
    /\ last.size >= PreHandler.maxBytes
    /\ last.rollovers = 1
    /\ Exists(fs, BackupName(2, PreHandler.current_date))
    /\ fs[BackupName(1, PreHandler.current_date)] # <<>>

\* C4: no write raises to its caller and every write appends its record to
\* a file, also when a file-system call fails during a rotation and in the
\* writes that follow such a failure.
C4_WriteNeverRaises ==
    last.op = "write" => /\ ~last.raised
                         /\ last.written # NoFile
                         /\ Exists(fs, last.written)

-----------------------------------------------------------------------------
(* Properties of the logging configuration                                 *)

\* the submitted form is not a pair of positive numbers
InvalidForm(form) ==
    \/ form[1] \in {"abc", "0"}
    \/ form[2] \in {"abc", "0"}

\* C9: an update with a non-positive or non-numeric value is answered with
\* a failure and changes nothing: the configuration pair, the handler
\* (same instance, thresholds and stream) and the files are as before,
\* and get_logging_config reports the pair held by the globals.
C9_InvalidUpdateChangesNothing ==
    /\ (last.op = "update_config" /\ InvalidForm(last.message)) =>
            /\ last.response.success = FALSE
            /\ local_max_bytes = last.pre.local_max_bytes
            /\ local_backup_count = last.pre.local_backup_count
            /\ logger_handlers = last.pre.logger_handlers
            /\ handler_count = Handler.id
            /\ fs = last.pre.fs
    /\ last.op = "get_config" =>
            /\ last.response.maxBytes = local_max_bytes
            /\ last.response.backupCount = local_backup_count

C9_Witness ==
    /\ last.op = "update_config"
    /\ last.message = <<"0", "2">>
    /\ last.response.success = FALSE
    /\ Handler.id = 2
    /\ local_backup_count = 2

\* the decimal text of the numbers a form submits
Decimal(n) == IF n = 1 THEN "1" ELSE "2"

\* the last operation was an update that replaced the configuration
UpdateSucceeded == last.op = "update_config" /\ last.response.success

\* C15: there is exactly one handler, its (maxBytes, backupCount) is the
\* pair get_logging_config reports: (1 MiB, 10) before any update and
\* (a MiB, b) after a successful update with a and b; the handler a
\* successful update installs is a new one, open on the file of today's
\* date whatever date and stream the replaced handler held.
C15_OneWriterWithCurrentPair ==
    /\ Len(logger_handlers) = 1
    /\ Handler.maxBytes = local_max_bytes
    /\ Handler.backupCount = local_backup_count
    /\ handler_count = 1 =>
           /\ local_max_bytes = 1024 * 1024
           /\ local_backup_count = 10
    /\ last.op = "get_config" =>
           /\ last.response.maxBytes = Handler.maxBytes
           /\ last.response.backupCount = Handler.backupCount
    /\ UpdateSucceeded =>
           /\ \E a, b \in 1..2 :
                  /\ last.message = <<Decimal(a), Decimal(b)>>
                  /\ local_max_bytes = a * 1024 * 1024
                  /\ local_backup_count = b
           /\ Handler.id # PreHandler.id
           /\ Handler.current_date = Today(now)
           /\ Handler.baseFilename = ActiveName(Today(now))
           /\ Handler.base_filename = ActiveName(Today(now))
           /\ Handler.stream = ActiveName(Today(now))
           /\ Exists(fs, ActiveName(Today(now)))

C15_Witness ==
    /\ UpdateSucceeded
    /\ last.message = <<"2", "1">>
    /\ PreHandler.stream = NoStream
    /\ PreHandler.baseFilename = ActiveName(0)
    /\ Handler.stream = ActiveName(1)
    /\ Handler.maxBytes = 2 * 1024 * 1024

\* the last operation was a write that rotated once
WriteRotatedOnce ==
    /\ last.op = "write"
    /\ ~last.raised
    /\ last.rollovers = 1

\* C10: a rotation moves every backup i of the active date
\* (1 <= i <= backupCount - 1) to i + 1 with its content, puts the
\* just-closed active file at number 1, and the content held at number
\* backupCount before is gone.
C10_BackupRenumbering ==
    WriteRotatedOnce =>
        LET date == Handler.current_date
            count == Handler.backupCount
        IN  /\ \A i \in 1..(count - 1) :
                   Exists(last.pre.fs, BackupName(i, date)) =>
                       /\ Exists(fs, BackupName(i + 1, date))
                       /\ fs[BackupName(i + 1, date)] =
                              last.pre.fs[BackupName(i, date)]
            /\ Exists(fs, BackupName(1, date))
            /\ fs[BackupName(1, date)] = last.pre.fs[PreHandler.stream]
            /\ (count >= 2 /\ ~Exists(last.pre.fs, BackupName(count - 1, date))) =>
                   ~Exists(fs, BackupName(count, date))

\* the last operation was a write in which no call failed and which found
\* the active file at or above maxBytes and the date changed
WriteFullAfterDateChange ==
    /\ last.op = "write"
    /\ last.fault = "none"
    /\ last.size >= PreHandler.maxBytes
    /\ Today(last.pre.now) # PreHandler.current_date

\* C14: a write that finds the active file at or above maxBytes and the
\* date changed performs exactly one rollover (doRollover runs once) and
\* then appends its record.
C14_SingleRollover ==
    WriteFullAfterDateChange =>
        /\ last.rollovers = 1
        /\ last.written # NoFile

\* the backup numbers present for a date
BackupNumbers(f, date) == {n[1] : n \in {m \in DOMAIN f : m[1] >= 1 /\ m[2] = date}}

\* the dates the files on disk are named for
FileDates(f) == {n[2] : n \in DOMAIN f}

\* C16: the backups present for any date are numbered within
\* 1..backupCount of the current configuration, also after an update that
\* lowers backupCount.
C16_RetentionCap ==
    \A date \in FileDates(fs) :
        /\ BackupNumbers(fs, date) \subseteq 1..local_backup_count
        /\ Cardinality(BackupNumbers(fs, date)) <= local_backup_count

\* C17: backup numbering has no gaps: if backup k > 1 of a date exists
\* then backup k - 1 of that date exists.
C17_NoGaps ==
    \A date \in FileDates(fs) :
        \A k \in BackupNumbers(fs, date) :
            k > 1 => (k - 1) \in BackupNumbers(fs, date)

C17_Witness ==
    /\ last.op = "write"
    /\ last.rollovers = 1
    /\ \E date \in FileDates(fs) : BackupNumbers(fs, date) = {1, 2}
    /\ \E date \in FileDates(fs) :
           /\ BackupNumbers(last.pre.fs, date) = {1}
           /\ fs[BackupName(2, date)] = last.pre.fs[BackupName(1, date)]

\* C18: every record is appended to a file whose size at the moment of the
\* append is below maxBytes of the writer, over any sequence of writes,
\* rotations and date changes on one writer.
C18_AppendBelowMaxBytes ==
    (last.op = "write" /\ last.fault = "none" /\ last.written # NoFile
        /\ handler_count = 1) =>
        GetSize(fs, last.written) - RecordLen(last.message) < Handler.maxBytes

-----------------------------------------------------------------------------
(* Properties of the Redis log list                                        *)

Min(a, b) == IF a < b THEN a ELSE b

\* the last n entries of a sequence
LastEntries(seq, n) == SubSeq(seq, Len(seq) - n + 1, Len(seq))

\* C5: after every append the list of the source is the last min(n, 1000)
\* messages appended since the list was created, oldest first, so it never
\* holds more than 1000; the lists of the other sources are unchanged.
C5_LastThousandInOrder ==
    /\ \A s \in Sources :
           /\ Len(LRangeAll(store, Key(s))) <= 1000
           /\ LRangeAll(store, Key(s)) =
                  LastEntries(hist[s], Min(Len(hist[s]), 1000))
    /\ last.op = "append" =>
           \A s \in Sources \ {last.source} :
               LRangeAll(store, Key(s)) = LRangeAll(last.pre.store, Key(s))

C5_Witness ==
    /\ last.op = "append"
    /\ Len(hist[last.source]) = 1001
    /\ Len(store[Key(last.source)]) = 1000
    /\ store[Key(last.source)][1000] = last.message
    /\ store[Key(last.source)][1] # hist[last.source][1]

\* the last operation was an append that returned to its caller
AppendReturned == last.op = "append" /\ ~last.raised

\* the list of the source had an expiry before the last operation
HadExpiry(source) ==
    /\ Key(source) \in DOMAIN last.pre.store
    /\ Key(source) \in DOMAIN last.pre.expire_at

\* C6: an append that returns leaves the deadline of a list whose expiry is
\* running as it was, and gives a list that is new or has no expiry a
\* deadline 7 days ahead.
C6_ExpirySetOnce ==
    AppendReturned =>
        LET key == Key(last.source)
        IN  /\ key \in DOMAIN expire_at
            /\ expire_at[key] = IF HadExpiry(last.source)
                                THEN last.pre.expire_at[key]
                                ELSE now + 7 * 24 * 60 * 60

C6_Witness ==
    /\ AppendReturned
    /\ last.source = "processor"
    /\ HadExpiry("processor")
    /\ now > 0
    /\ expire_at[Key("processor")] = 7 * 24 * 60 * 60

\* the last two operations were clear_logs and an append of the same source
ClearThenAppend == AppendReturned /\ last.cleared.was

\* C7: clear_logs followed at once by an append of m to the same source
\* leaves the list <<m>>, which get_logs returns as such, and the list
\* carries a deadline 7 days ahead, whatever the deleted list held.
C7_ClearThenAppend ==
    ClearThenAppend =>
        LET key == Key(last.source)
        IN  /\ key \in DOMAIN store
            /\ store[key] = <<last.message>>
            /\ Dedup(LRangeAll(store, key)) = <<last.message>>
            /\ key \in DOMAIN expire_at
            /\ expire_at[key] = now + 7 * 24 * 60 * 60

C7_Witness ==
    /\ ClearThenAppend
    /\ last.cleared.length >= 2
    /\ last.cleared.deadline # -1
    /\ last.cleared.deadline < expire_at[Key(last.source)]
    /\ store[Key(last.source)] = <<last.message>>

\* the index of the first occurrence of a message in a list
FirstAt(logs, m) == CHOOSE i \in 1..Len(logs) :
                        /\ logs[i] = m
                        /\ \A j \in 1..(i - 1) : logs[j] # m

\* C8: get_logs returns every distinct stored message exactly once, in the
\* order of the first occurrences, and leaves the store as it was.
C8_ReadCollapsesDuplicates ==
    last.op = "get_logs" =>
        LET stored == LRangeAll(store, Key(last.source))
            logs == last.response.logs
        IN  /\ store = last.pre.store
            /\ expire_at = last.pre.expire_at
            /\ {logs[i] : i \in 1..Len(logs)} = {stored[i] : i \in 1..Len(stored)}
            /\ \A i, j \in 1..Len(logs) : i # j => logs[i] # logs[j]
            /\ \A i, j \in 1..Len(logs) :
                   i < j => FirstAt(stored, logs[i]) < FirstAt(stored, logs[j])

C8_Witness ==
    /\ last.op = "get_logs"
    /\ Len(LRangeAll(store, Key(last.source))) = 3
    /\ store[Key(last.source)][1] = store[Key(last.source)][3]
    /\ store[Key(last.source)][1] # store[Key(last.source)][2]
    /\ Len(last.response.logs) = 2

\* C19: between calls every list that exists in the store has an expiry
\* running, also after a log_to_redis call whose file write raised.
C19_EveryListExpires ==
    \A key \in DOMAIN store : key \in DOMAIN expire_at

-----------------------------------------------------------------------------
(* Properties of concurrent calls                                          *)

\* thread t has read the handlers of the logger
PastCallHandlers(t) ==
    threads[t].pc \in {"emit", "super_emit", "close", "shift", "rename", "reopen",
                       "append", "ttl", "expire", "done", "raised"}

\* C11: whatever the interleaving of a configure_logging call with
\* log_to_redis calls, every write finds exactly one handler on the logger,
\* runs on the handler it found, and a call that has finished has written
\* its record exactly once.
C11_WriterSwappedAtomically ==
    \A t \in Threads :
        /\ PastCallHandlers(t) => Len(threads[t].seen) = 1
        /\ Locked(t) => threads[t].held = threads[t].seen[1]
        /\ threads[t].pc = "done" => threads[t].written = 1

\* thread t has pushed its message and not yet finished the expiry step
InAppend(t) ==
    threads[t].pc \in {"ltrim", "handlers", "emit", "super_emit", "close", "shift",
                       "rename", "reopen", "append", "ttl", "expire"}

\* C12: the push, truncate and expire steps of two appends to one source
\* never interleave, and no get_logs reads a stored list of more than 1000
\* entries.
C12_AppendsNotInterleaved ==
    /\ \A t, u \in Threads :
           (t # u /\ InAppend(t) /\ InAppend(u)) =>
               threads[t].source # threads[u].source
    /\ last.op = "get_logs" =>
           Len(LRangeAll(last.pre.store, Key(last.source))) <= 1000

\* C13: two writes are never both between their first size read and their
\* append on handlers that write the same file, also when one handler was
\* installed before and the other after a configure_logging call.
C13_RotationsNotInterleaved ==
    \A t, u \in Threads :
        (t # u /\ Locked(t) /\ Locked(u)) =>
            HandlerOf(threads[t].held).baseFilename #
                HandlerOf(threads[u].held).baseFilename

====
